---- MODULE Spec2Model ----
(***************************************************************************)
(* The session-scoped conversation-history store of                        *)
(* State/003_Fast_01_InMemoeryCMH/app/api/api_state/api_buffer_memory.py:  *)
(*                                                                         *)
(*     store = {}                                                          *)
(*     def get_session_history(session_id:str):                            *)
(*         if session_id not in store:                                     *)
(*             store[session_id] = InMemoryChatMessageHistory()            *)
(*         return store[session_id]                                        *)
(*                                                                         *)
(* Transcripts are objects: the heap is a sequence of transcripts and a    *)
(* reference is an index into it, so that "the same instance" and "an      *)
(* equal copy" are different things.                                       *)
(*                                                                         *)
(* Spec        every call runs to completion in one step (a handler body   *)
(*             that never suspends between the lookup and the insert).     *)
(* SpecThreads the lines of a call are separate steps of its caller and    *)
(*             the callers interleave (worker threads, no lock).           *)
(***************************************************************************)
EXTENDS Integers, Sequences, FiniteSets, TLC

\* ------------------------------------------------------------------ bounds
\* number of concurrent callers (request handlers)
NumCallers == 2
\* messages recorded in all transcripts together
MaxMsgs == 2
\* calls started by the interleaving callers
MaxCalls == 3

Callers == 1..NumCallers
\* session ids are caller-supplied strings; the empty string is one of them
SessionIds == {"", "a", "b"}
\* message records {role, content}; the store never looks into a record, so two
\* records that differ in both fields stand for all of them
Messages ==
    { [role |-> "user", content |-> "hi"],
      [role |-> "assistant", content |-> "yo"] }
\* the session ids of the interleaved calls: a race needs one session id, its
\* independence of another session a second one
ThreadSessionIds == {"", "a"}

VARIABLES
    store,    \* the module-level dict: session id -> reference of its transcript
    heap,     \* heap[r]: the messages of transcript object r, in order
    madeFor,  \* madeFor[r]: the session id whose call constructed object r
    asked,    \* the session ids passed to a call so far
    calls,    \* the number of interleaved calls started so far
    pc,       \* pc[c]: the line caller c stands before ("idle": not in a call)
    op,       \* op[c]: the operation c is running ("none" when idle)
    sid,      \* sid[c]: the session_id argument of the running call
    msg,      \* msg[c]: the message of the running append
    held,     \* held[c]: the reference in c's local variable (0: none)
    ret,      \* ret[c]: outcome of c's last completed call
    rows,     \* the committed rows of table UserEntity, in the order of their commits
    ucall,    \* the last call into the user pipeline: its arguments and its outcome
    reqs,     \* reqs[n]: the n-th request that depends on get_db: its position and its session
    sessions  \* sessions[k]: the k-th Session made by SessionLocal()

vars == <<store, heap, madeFor, asked, calls, pc, op, sid, msg, held, ret>>

\* the state of the user pipeline, which the conversation store never touches
uvars == <<rows, ucall>>

\* the state of the sessions handed out by get_db
dvars == <<reqs, sessions>>

\* ----------------------------------------------------------- outcomes
NoResult == [kind |-> "none"]
Returned(r) == [kind |-> "ok", ref |-> r]
Raised(e) == [kind |-> "raise", exc |-> e]

Refs(h) == 1..Len(h)

\* ----------------------------------------------------------- the dict
\* slip: an empty session id is taken for "no key" and never found
ContainsTruthy(st, s) == s # "" /\ s \in DOMAIN st

\* `session_id in store`
Contains(st, s) == s \in DOMAIN st

\* slip: the dict is rebuilt around the one key, the other keys are gone
SetItemOnly(st, s, r) == [x \in {s} |-> r]

\* slip: a store of at most two entries, an older entry makes room for a new key
SetItemCapped(st, s, r) ==
    LET keep == IF s \notin DOMAIN st /\ Cardinality(DOMAIN st) >= 2
                THEN DOMAIN st \ {CHOOSE k \in DOMAIN st : TRUE}
                ELSE DOMAIN st
    IN [x \in keep \cup {s} |-> IF x = s THEN r ELSE st[x]]

\* `store[session_id] = value`: adds the key or rebinds it, other keys untouched
SetItem(st, s, r) == [x \in DOMAIN st \cup {s} |-> IF x = s THEN r ELSE st[x]]

\* `store[session_id]`: the value bound to the key, KeyError when there is none
GetItem(st, s) == IF s \in DOMAIN st THEN Returned(st[s]) ELSE Raised("KeyError")

\* ----------------------------------------------------------- transcripts
\* InMemoryChatMessageHistory(): a new object with no messages
InMemoryChatMessageHistory == <<>>

\* slip: one module-level default transcript is handed to every session
SharedRef(h) == 1

\* the reference of the object the next construction yields
NewRef(h) == Len(h) + 1

\* the heap after constructing one transcript
Construct(h) == Append(h, InMemoryChatMessageHistory)

\* transcript.add_message(m): m goes to the end of object r
add_message(h, r, m) == [h EXCEPT ![r] = Append(@, m)]

\* ----------------------------------------------------------- one whole call
\* lines 46-47: the store, the heap and the makers after the lookup-or-create
\* slip: the membership test is left out, every call constructs and inserts
MissedAlways(st, s) == TRUE

\* slip: `if session_id and session_id not in store`
MissedTruthy(st, s) == s # "" /\ ~Contains(st, s)

Missed(st, s) == ~Contains(st, s)
StoreAfter(st, h, s) == IF Missed(st, s) THEN SetItem(st, s, NewRef(h)) ELSE st
HeapAfter(st, h, s) == IF Missed(st, s) THEN Construct(h) ELSE h
MadeAfter(st, mf, s) == IF Missed(st, s) THEN Append(mf, s) ELSE mf
\* line 48: what the call returns
Result(st, h, s) == GetItem(StoreAfter(st, h, s), s)

RECURSIVE SumLen(_)
SumLen(h) == IF h = <<>> THEN 0 ELSE Len(Head(h)) + SumLen(Tail(h))

\* appends that are under way and have not yet added their message
Pending == Cardinality({c \in Callers : op[c] = "append"})

\* room for one more message within the bound
Room == SumLen(heap) + Pending < MaxMsgs

Init ==
    /\ store = <<>>
    /\ heap = <<>>
    /\ madeFor = <<>>
    /\ asked = {}
    /\ calls = 0
    /\ pc = [c \in Callers |-> "idle"]
    /\ op = [c \in Callers |-> "none"]
    /\ sid = [c \in Callers |-> ""]
    /\ msg = [c \in Callers |-> NoResult]
    /\ held = [c \in Callers |-> 0]
    /\ ret = [c \in Callers |-> NoResult]
    /\ rows = <<>>
    /\ ucall = [op |-> "none"]
    /\ reqs = <<>>
    /\ sessions = <<>>

\* ------------------------------------------------- calls that do not suspend
\* get_session_history(session_id), lines 46-48 in one step
get_session_history(c, s) ==
    /\ pc[c] = "idle"
    /\ store' = StoreAfter(store, heap, s)
    /\ heap' = HeapAfter(store, heap, s)
    /\ madeFor' = MadeAfter(store, madeFor, s)
    /\ ret' = [ret EXCEPT ![c] = Result(store, heap, s)]
    /\ asked' = asked \cup {s}
    /\ UNCHANGED <<calls, pc, op, sid, msg, held>>
    /\ UNCHANGED <<uvars, dvars>>

\* append(session_id, role, content): get_session_history, then add_message
append(c, s, m) ==
    /\ pc[c] = "idle"
    /\ store' = StoreAfter(store, heap, s)
    /\ madeFor' = MadeAfter(store, madeFor, s)
    /\ Room
    /\ LET got == Result(store, heap, s)
           h1 == HeapAfter(store, heap, s)
       IN IF got.kind = "ok"
          THEN /\ heap' = add_message(h1, got.ref, m)
               /\ ret' = [ret EXCEPT ![c] = NoResult]
          ELSE /\ heap' = h1
               /\ ret' = [ret EXCEPT ![c] = got]
    /\ asked' = asked \cup {s}
    /\ UNCHANGED <<calls, pc, op, sid, msg, held>>
    /\ UNCHANGED <<uvars, dvars>>

Next ==
    \/ \E c \in Callers, s \in SessionIds : get_session_history(c, s)
    \/ \E c \in Callers, s \in SessionIds, m \in Messages : append(c, s, m)

Spec == Init /\ [][Next]_vars

\* ------------------------------------------------- calls that interleave
\* a call starts and runs line 46, `if session_id not in store`
t_lookup(c, o, s, m) ==
    /\ pc[c] = "idle"
    /\ calls < MaxCalls
    /\ o = "append" => Room
    /\ calls' = calls + 1
    /\ op' = [op EXCEPT ![c] = o]
    /\ sid' = [sid EXCEPT ![c] = s]
    /\ msg' = [msg EXCEPT ![c] = m]
    /\ ret' = [ret EXCEPT ![c] = NoResult]
    /\ asked' = asked \cup {s}
    /\ pc' = [pc EXCEPT ![c] = IF Missed(store, s) THEN "construct" ELSE "return"]
    /\ UNCHANGED <<store, heap, madeFor, held>>
    /\ UNCHANGED <<uvars, dvars>>

\* line 47, right-hand side: InMemoryChatMessageHistory()
t_construct(c) ==
    /\ pc[c] = "construct"
    /\ held' = [held EXCEPT ![c] = NewRef(heap)]
    /\ heap' = Construct(heap)
    /\ madeFor' = Append(madeFor, sid[c])
    /\ pc' = [pc EXCEPT ![c] = "insert"]
    /\ UNCHANGED <<store, asked, calls, op, sid, msg, ret>>
    /\ UNCHANGED <<uvars, dvars>>

\* line 47, the assignment: store[session_id] = <the new object>
t_insert(c) ==
    /\ pc[c] = "insert"
    /\ store' = SetItem(store, sid[c], held[c])
    /\ held' = [held EXCEPT ![c] = 0]
    /\ pc' = [pc EXCEPT ![c] = "return"]
    /\ UNCHANGED <<heap, madeFor, asked, calls, op, sid, msg, ret>>
    /\ UNCHANGED <<uvars, dvars>>

\* line 48: return store[session_id]; an append goes on with the transcript
t_return(c) ==
    /\ pc[c] = "return"
    /\ LET got == GetItem(store, sid[c])
       IN IF op[c] = "append" /\ got.kind = "ok"
          THEN /\ held' = [held EXCEPT ![c] = got.ref]
               /\ pc' = [pc EXCEPT ![c] = "add"]
               /\ UNCHANGED <<op, sid, msg, ret>>
          ELSE /\ ret' = [ret EXCEPT ![c] = got]
               /\ pc' = [pc EXCEPT ![c] = "idle"]
               /\ op' = [op EXCEPT ![c] = "none"]
               /\ sid' = [sid EXCEPT ![c] = ""]
               /\ msg' = [msg EXCEPT ![c] = NoResult]
               /\ UNCHANGED held
    /\ UNCHANGED <<store, heap, madeFor, asked, calls>>
    /\ UNCHANGED <<uvars, dvars>>

\* the append's add_message on the transcript it fetched
t_add(c) ==
    /\ pc[c] = "add"
    /\ heap' = add_message(heap, held[c], msg[c])
    /\ held' = [held EXCEPT ![c] = 0]
    /\ pc' = [pc EXCEPT ![c] = "idle"]
    /\ op' = [op EXCEPT ![c] = "none"]
    /\ sid' = [sid EXCEPT ![c] = ""]
    /\ msg' = [msg EXCEPT ![c] = NoResult]
    /\ UNCHANGED <<store, madeFor, asked, calls, ret>>
    /\ UNCHANGED <<uvars, dvars>>

NextThreads ==
    \/ \E c \in Callers, s \in ThreadSessionIds : t_lookup(c, "get", s, NoResult)
    \/ \E c \in Callers, s \in ThreadSessionIds, m \in Messages : t_lookup(c, "append", s, m)
    \/ \E c \in Callers : t_construct(c)
    \/ \E c \in Callers : t_insert(c)
    \/ \E c \in Callers : t_return(c)
    \/ \E c \in Callers : t_add(c)

SpecThreads == Init /\ [][NextThreads]_vars

TypeOK ==
    /\ DOMAIN store \subseteq SessionIds
    /\ \A s \in DOMAIN store : store[s] \in Refs(heap)
    /\ Len(madeFor) = Len(heap)
    /\ SumLen(heap) <= MaxMsgs
\* ======================================================= the user pipeline
\* POST /create/user: create_user (api_user.py) -> validate_user_request ->
\* UserService.create_user -> validate_user_model -> UserRepository.create_user
\* -> Session.add / commit / refresh -> MapUser.UserEntityToItem -> set_response.
\* Every function is an operator from its arguments to its outcome; an action
\* applies one to inputs drawn from small sets and records the call in ucall.

\* rows the database may hold when the API is called
MaxRows == 2
\* rows the database may hold when the service and the repository are called alone
MaxUnitRows == 1
MaxPad == 1
MaxRequests == 2

allvars == <<vars, uvars, dvars>>

\* ----------------------------------------------------------- values
\* Python values of the field Message: None, a str, the dict {"error": text}
None == [t |-> "None"]
Str(s) == [t |-> "str", v |-> s]
ErrorDict(s) == [t |-> "dict", error |-> s]

\* ItemBase: Message: str | None = None under validate_assignment=True; an
\* assignment of anything else raises pydantic's ValidationError
MessageAccepts(v) == v.t \in {"None", "str"}

\* user_model.py: the three classes with Id, UserId, Name, and UserModel
UserItem(i, u, n) ==
    [cls |-> "UserItem", Id |-> i, UserId |-> u, Name |-> n,
     Message |-> None, IsInvalid |-> FALSE]
UserRequest(i, u, n) ==
    [cls |-> "UserRequest", Id |-> i, UserId |-> u, Name |-> n,
     Message |-> None, IsInvalid |-> FALSE]
UserResponse(i, u, n) ==
    [cls |-> "UserResponse", Id |-> i, UserId |-> u, Name |-> n,
     Message |-> None, IsInvalid |-> FALSE]
UserModel ==
    [cls |-> "UserModel", item |-> None, response |-> None, request |-> None,
     Message |-> None, IsInvalid |-> FALSE]

\* ----------------------------------------------------------- inputs
\* Id, UserId and Name of a request; 7 is no Id the database assigns here
Ids == {0, 7}
UserIds == {-1, 0, 1}
Names == {<<>>, <<"A", "l">>}      \* a str is the sequence of its characters
Requests == {UserRequest(i, u, n) : i \in Ids, u \in UserIds, n \in Names}
Items == {UserItem(i, u, n) : i \in Ids, u \in UserIds, n \in Names}

\* an item a model may carry before validation
OldItem == UserItem(7, 1, <<"A", "l">>)

\* the models validate_user_request is applied to: None, and models with or
\* without a request, with or without an item
ValidatorModels ==
    {None} \cup
    { [UserModel EXCEPT !.request = r, !.item = it] :
        r \in Requests \cup {None}, it \in {None, OldItem} }

\* ----------------------------------------------------------- validation
\* slip: `request.UserId < 0`, the default UserId 0 passes
validate_user_request_lt(model) ==
    IF model = None
    THEN [UserModel EXCEPT !.IsInvalid = TRUE, !.Message = Str("Invalid user model")]
    ELSE IF model.request = None
    THEN [model EXCEPT
            !.request = [UserRequest(0, 0, <<>>) EXCEPT
                           !.IsInvalid = TRUE,
                           !.Message = Str("Invalid user request")],
            !.IsInvalid = TRUE,
            !.Message = Str("Invalid user request")]
    ELSE IF model.request.UserId < 0
    THEN [model EXCEPT !.IsInvalid = TRUE, !.Message = Str("Invalid user Id")]
    ELSE [model EXCEPT
            !.item = UserItem(model.request.Id, model.request.UserId, model.request.Name),
            !.IsInvalid = FALSE]

\* UserValidationUtility.validate_user_request
validate_user_request(model) ==
    IF model = None
    THEN [UserModel EXCEPT !.IsInvalid = TRUE, !.Message = Str("Invalid user model")]
    ELSE IF model.request = None
    THEN [model EXCEPT
            !.request = [UserRequest(0, 0, <<>>) EXCEPT
                           !.IsInvalid = TRUE,
                           !.Message = Str("Invalid user request")],
            !.IsInvalid = TRUE,
            !.Message = Str("Invalid user request")]
    ELSE IF model.request.UserId <= 0
    THEN [model EXCEPT !.IsInvalid = TRUE, !.Message = Str("Invalid user Id")]
    ELSE [model EXCEPT
            !.item = UserItem(model.request.Id, model.request.UserId, model.request.Name),
            !.IsInvalid = FALSE]

\* UserValidationUtility.validate_user_model
validate_user_model(model) ==
    IF model = None
    THEN [UserModel EXCEPT !.IsInvalid = TRUE, !.Message = Str("Invalid user model")]
    ELSE IF model.item = None
    THEN [model EXCEPT
            !.item = UserItem(0, 0, <<>>),
            !.IsInvalid = TRUE,
            !.Message = Str("Invalid user item")]
    ELSE model

\* ----------------------------------------------------------- entity, mapping
\* an int held by a column that may also be unset (None)
IntVal(k) == [t |-> "int", v |-> k]

\* UserEntity(UserId=.., Name=..): Id is unset until the database assigns it;
\* the columns UserId and Name hold a value or None
UserEntity(u, n) ==
    [cls |-> "UserEntity", Id |-> None, UserId |-> IntVal(u), Name |-> Str(n)]

\* MapUser.UserItemToEntity: Id, UserId and Name copied to a new entity
UserItemToEntity(source) ==
    [cls |-> "UserEntity", Id |-> IntVal(source.Id),
     UserId |-> IntVal(source.UserId), Name |-> Str(source.Name)]

\* str_strip_whitespace=True: a str assigned to a field loses the whitespace
\* at both ends
RECURSIVE LStrip(_)
LStrip(s) == IF s # <<>> /\ Head(s) = " " THEN LStrip(Tail(s)) ELSE s
RECURSIVE RStrip(_)
RStrip(s) ==
    IF s # <<>> /\ s[Len(s)] = " " THEN RStrip(SubSeq(s, 1, Len(s) - 1)) ELSE s
Strip(s) == RStrip(LStrip(s))

\* MapUser.UserEntityToItem raises when a column of the entity is None:
\* UserItem.Id and UserId are int, Name is str, and assignments are validated
UserEntityToItemRaises(source) ==
    source.Id = None \/ source.UserId = None \/ source.Name = None

\* MapUser.UserEntityToItem: Id, Name and UserId assigned to a new item
UserEntityToItem(source) ==
    UserItem(source.Id.v, source.UserId.v, Strip(source.Name.v))

\* ----------------------------------------------------------- database
\* what the session given to the repository does: "none": there is no session
\* (self.db is None); "ok": add, commit and refresh succeed; "add", "commit",
\* "refresh": that call raises, the calls before it succeed; "mapping": the
\* three calls succeed and the row read back by refresh has NULL in the
\* nullable column Name (another client of the database has changed it since
\* the commit), so that the mapping of line 33 raises
DbModes == {"none", "ok", "add", "commit", "refresh", "mapping"}

\* the text of the exception a failing session call raises; for the mapping
\* it is str() of pydantic's ValidationError for a Name that is None
ExcText(f) == IF f = "add" THEN "add failed"
              ELSE IF f = "commit" THEN "commit failed"
              ELSE IF f = "refresh" THEN "refresh failed"
              ELSE "1 validation error for UserItem\nName\n  Input should be a valid string [type=string_type, input_value=None, input_type=NoneType]\n    For further information visit https://errors.pydantic.dev/2.13/v/string_type"

\* the row INSERTed for an entity at commit: an unset Id is the next identity
\* value; the column Name holds a str or NULL (None)
RowOf(rws, e) ==
    [Id |-> IF e.Id = None THEN Len(rws) + 1 ELSE e.Id.v,
     UserId |-> e.UserId.v, Name |-> e.Name]

\* Session.commit() with entity e added: its row is the table's last
Commit(rws, e) == Append(rws, RowOf(rws, e))

\* Session.refresh(entity): the entity as its row reads
Refresh(row) ==
    [cls |-> "UserEntity", Id |-> IntVal(row.Id),
     UserId |-> IntVal(row.UserId), Name |-> row.Name]

\* the table once another client has set the Name of its last row to NULL
NameNulled(rws) == [rws EXCEPT ![Len(rws)].Name = None]

\* ----------------------------------------------------------- repository
\* the outcome of a call: the model returned (or the exception raised), the
\* table afterwards, and the calls it made, in order
Outcome(m, rws, tr, ex) == [model |-> m, rows |-> rws, trace |-> tr, raised |-> ex]

\* UserRepository.set_inv_msg
set_inv_msg(model, text) == [model EXCEPT !.IsInvalid = TRUE, !.Message = Str(text)]

\* slip: the entity is mapped from the item, Id included (the line commented out)
EntityOfMapped(item) == UserItemToEntity(item)

\* line 29: entity = UserEntity(UserId=model.item.UserId, Name=model.item.Name)
EntityOf(item) == UserEntity(item.UserId, item.Name)

\* UserRepository.create_user
repository_create_user(model, db, rws) ==
    IF model = None
    THEN \* set_inv_msg(None, ..) raises inside the except block; the text of
         \* the AttributeError differs between versions of the interpreter
         Outcome(None, rws, <<>>, Str("AttributeError"))
    ELSE IF db = "none"
    THEN Outcome(set_inv_msg(model, "Database session is None"), rws, <<>>, None)
    ELSE IF model.item = None
    THEN Outcome(set_inv_msg(model, "'NoneType' object has no attribute 'UserId'"),
                 rws, <<>>, None)
    ELSE LET entity == EntityOf(model.item)
             rows2 == Commit(rws, entity)
             rows3 == IF db = "mapping" THEN NameNulled(rows2) ELSE rows2
             fresh == Refresh(rows3[Len(rows3)])
         IN IF db = "add"
            THEN Outcome(set_inv_msg(model, ExcText(db)), rws, <<"add">>, None)
            ELSE IF db = "commit"
            THEN Outcome(set_inv_msg(model, ExcText(db)), rws, <<"add", "commit">>, None)
            ELSE IF db = "refresh"
            THEN Outcome(set_inv_msg(model, ExcText(db)), rows2,
                         <<"add", "commit", "refresh">>, None)
            ELSE IF UserEntityToItemRaises(fresh)
            THEN Outcome(set_inv_msg(model, ExcText("mapping")), rows3,
                         <<"add", "commit", "refresh", "UserEntityToItem">>, None)
            ELSE Outcome([model EXCEPT !.item = UserEntityToItem(fresh)], rows3,
                         <<"add", "commit", "refresh", "UserEntityToItem">>, None)

\* the models create_user is called with: None, and models with or without
\* an item
RepositoryModels ==
    {None} \cup { [UserModel EXCEPT !.item = it] : it \in Items \cup {None} }

\* ----------------------------------------------------------- service
\* slip: the response of a flagged model is not flagged
set_response_unflagged(model) ==
    IF model.IsInvalid
    THEN [model EXCEPT !.response =
            [UserResponse(0, 0, <<>>) EXCEPT !.Message = model.Message]]
    ELSE [model EXCEPT !.response =
            [UserResponse(0,
                          IF model.item # None THEN model.item.UserId ELSE 0,
                          IF model.item # None THEN model.item.Name ELSE <<>>)
               EXCEPT !.Message = Str("User created successfully")]]

\* UserService.set_response
set_response(model) ==
    IF model.IsInvalid
    THEN [model EXCEPT !.response =
            [UserResponse(0, 0, <<>>) EXCEPT !.IsInvalid = TRUE,
                                           !.Message = model.Message]]
    ELSE [model EXCEPT !.response =
            [UserResponse(0,
                          IF model.item # None THEN model.item.UserId ELSE 0,
                          IF model.item # None THEN model.item.Name ELSE <<>>)
               EXCEPT !.Message = Str("User created successfully")]]

\* slip: the repository is called whatever validate_user_model answered
service_create_user_unguarded(model, db, rws) ==
    LET m1 == validate_user_model(model)
        o == repository_create_user(m1, db, rws)
    IN Outcome(set_response(o.model), o.rows,
               <<"validate_user_model", "repository.create_user">> \o o.trace,
               o.raised)

\* UserService.create_user
service_create_user(model, db, rws) ==
    LET m1 == validate_user_model(model)
    IN IF m1.IsInvalid
       THEN Outcome(set_response(m1), rws, <<"validate_user_model">>, None)
       ELSE LET o == repository_create_user(m1, db, rws)
            IN Outcome(set_response(o.model), o.rows,
                       <<"validate_user_model", "repository.create_user">> \o o.trace,
                       o.raised)

\* the models the service is called with: None, and models with or without
\* an item, flagged or not
ServiceModels ==
    {None} \cup
    { [UserModel EXCEPT !.item = it, !.IsInvalid = f.flag, !.Message = f.text] :
        it \in Items \cup {None},
        f \in { [flag |-> FALSE, text |-> None],
                [flag |-> TRUE, text |-> Str("Invalid user Id")] } }

\* ----------------------------------------------------------- handler
\* get_user_validation_utility() of line 56 returns the utility or raises
Faults == {"none", "utility"}

\* the requests POSTed: the UserIds above and a second positive one
ApiRequests == {UserRequest(i, u, n) : i \in Ids, u \in UserIds \cup {2}, n \in Names}

\* what the handler hands to the framework: a response, or an exception
Respond(resp, rws, tr) == [response |-> resp, rows |-> rws, trace |-> tr, raised |-> None]
Propagate(exc, rws, tr) == [response |-> None, rows |-> rws, trace |-> tr, raised |-> Str(exc)]

\* lines 70-73: the except branch of the handler; the assignment of line 72
\* is validated against Message: str | None
except_branch(response, text, rws, tr) ==
    IF MessageAccepts(ErrorDict(text))
    THEN Respond([response EXCEPT !.IsInvalid = TRUE, !.Message = ErrorDict(text)],
                 rws, tr \o <<"except">>)
    ELSE Propagate("ValidationError", rws, tr \o <<"except">>)

\* slip: the service is called whatever the validation answered
api_create_user_unchecked(request, fault, db, rws) ==
    LET response == UserResponse(0, 0, <<>>)
    IN IF fault = "utility"
       THEN except_branch(response, "utility failed", rws,
                          <<"get_user_validation_utility">>)
       ELSE LET model == validate_user_request([UserModel EXCEPT !.request = request])
                o == service_create_user(model, db, rws)
            IN Respond(o.model.response, o.rows,
                       <<"get_user_validation_utility", "validate_user_request",
                         "service.create_user">> \o o.trace)

\* create_user of api_user.py, POST /create/user
api_create_user(request, fault, db, rws) ==
    LET response == UserResponse(0, 0, <<>>)
    IN IF fault = "utility"
       THEN except_branch(response, "utility failed", rws,
                          <<"get_user_validation_utility">>)
       ELSE LET model == validate_user_request([UserModel EXCEPT !.request = request])
            IN IF model.IsInvalid
               THEN Respond([response EXCEPT !.IsInvalid = model.IsInvalid,
                                             !.Message = model.Message],
                            rws,
                            <<"get_user_validation_utility", "validate_user_request">>)
               ELSE LET o == service_create_user(model, db, rws)
                    IN Respond(o.model.response, o.rows,
                               <<"get_user_validation_utility", "validate_user_request",
                                 "service.create_user">> \o o.trace)

\* ----------------------------------------------------------- unit calls
\* validate_user_request applied to one model
ValidateUserRequest(m) ==
    /\ ucall' = [op |-> "validate_user_request", arg |-> m,
                 out |-> validate_user_request(m)]
    /\ UNCHANGED rows
    /\ UNCHANGED <<vars, dvars>>

\* UserRepository.create_user applied to one model with one session
RepositoryCreateUser(m, db) ==
    LET o == repository_create_user(m, db, rows)
    IN /\ Len(o.rows) <= MaxUnitRows
       /\ ucall' = [op |-> "repository.create_user", arg |-> m, db |-> db,
                    before |-> rows, out |-> o.model, trace |-> o.trace,
                    raised |-> o.raised]
       /\ rows' = o.rows
       /\ UNCHANGED <<vars, dvars>>

ServiceCreateUser(m, db) ==
    LET o == service_create_user(m, db, rows)
    IN /\ Len(o.rows) <= MaxUnitRows
       /\ ucall' = [op |-> "service.create_user", arg |-> m, db |-> db,
                    before |-> rows, out |-> o.model, trace |-> o.trace,
                    raised |-> o.raised]
       /\ rows' = o.rows
       /\ UNCHANGED <<vars, dvars>>

NextUnits ==
    \/ \E m \in ValidatorModels : ValidateUserRequest(m)
    \/ \E m \in RepositoryModels, db \in DbModes : RepositoryCreateUser(m, db)
    \/ \E m \in ServiceModels, db \in DbModes : ServiceCreateUser(m, db)

SpecUnits == Init /\ [][NextUnits]_allvars

\* one request to POST /create/user, answered
PostCreateUser(req, fault, db) ==
    LET o == api_create_user(req, fault, db, rows)
    IN /\ Len(o.rows) <= MaxRows
       /\ ucall' = [op |-> "POST /create/user", request |-> req, fault |-> fault,
                    db |-> db, before |-> rows, response |-> o.response,
                    trace |-> o.trace, raised |-> o.raised]
       /\ rows' = o.rows
       /\ UNCHANGED <<vars, dvars>>

NextApi == \E req \in ApiRequests, fault \in Faults, db \in DbModes :
               PostCreateUser(req, fault, db)

SpecApi == Init /\ [][NextApi]_allvars

\* ----------------------------------------------------------- MapUser calls
\* k blanks
Pad(k) == [i \in 1..k |-> " "]

\* the Names of a column: a name of Names with up to MaxPad blanks at each end
ColumnNames == {Pad(l) \o n \o Pad(r) : l \in 0..MaxPad, r \in 0..MaxPad, n \in Names}

\* the entities MapUser is applied to: new ones (Id None), loaded ones, with
\* the nullable columns UserId and Name set or None
Entities ==
    { [cls |-> "UserEntity", Id |-> i, UserId |-> u, Name |-> n] :
        i \in {None} \cup {IntVal(k) : k \in {1, 7}},
        u \in {None} \cup {IntVal(k) : k \in UserIds},
        n \in {None} \cup {Str(s) : s \in ColumnNames} }

\* what a call of UserEntityToItem gives: an item, or pydantic's ValidationError
EntityToItemResult(source) ==
    IF UserEntityToItemRaises(source)
    THEN [result |-> None, raised |-> Str("ValidationError")]
    ELSE [result |-> UserEntityToItem(source), raised |-> None]

\* one call of UserItemToEntity
CallUserItemToEntity(x) ==
    /\ ucall' = [op |-> "UserItemToEntity", arg |-> x, argAfter |-> x,
                 out |-> UserItemToEntity(x), raised |-> None]
    /\ UNCHANGED rows
    /\ UNCHANGED <<vars, dvars>>

\* one call of UserEntityToItem
CallUserEntityToItem(e) ==
    /\ ucall' = [op |-> "UserEntityToItem", arg |-> e, argAfter |-> e,
                 out |-> EntityToItemResult(e).result,
                 raised |-> EntityToItemResult(e).raised]
    /\ UNCHANGED rows
    /\ UNCHANGED <<vars, dvars>>

\* UserEntityToItem(UserItemToEntity(x))
ItemRoundTrip(x) ==
    LET back == EntityToItemResult(UserItemToEntity(x))
    IN /\ ucall' = [op |-> "item round trip", arg |-> x, argAfter |-> x,
                    out |-> back.result, raised |-> back.raised]
       /\ UNCHANGED rows
       /\ UNCHANGED <<vars, dvars>>

\* UserItemToEntity(UserEntityToItem(e))
EntityRoundTrip(e) ==
    LET there == EntityToItemResult(e)
    IN /\ ucall' = [op |-> "entity round trip", arg |-> e, argAfter |-> e,
                    out |-> IF there.raised = None
                            THEN UserItemToEntity(there.result) ELSE None,
                    raised |-> there.raised]
       /\ UNCHANGED rows
       /\ UNCHANGED <<vars, dvars>>

NextMap ==
    \/ \E x \in Items : CallUserItemToEntity(x)
    \/ \E e \in Entities : CallUserEntityToItem(e)
    \/ \E x \in Items : ItemRoundTrip(x)
    \/ \E e \in Entities : EntityRoundTrip(e)

SpecMap == Init /\ [][NextMap]_allvars

\* ----------------------------------------------------------- get_db
\* a request is at one of: "arrived" (get_db not yet called), "opened" (line
\* 27 done), "yielded" (line 29 has yielded db, the handler is not called
\* yet), "handling" (the handler runs), "returned" / "raised" (the handler
\* has finished), "finished" (get_db left)
Request(p, k) == [pc |-> p, db |-> k]

\* line 27: db = SessionLocal(), a Session made by this call
SessionLocal(ss) == Len(ss) + 1

\* slip: `else:` in place of `finally:`, the exit code runs after a normal end only
RunsFinallyOnReturn(outcome) == outcome = "returned"

\* lines 32-33: the finally clause runs however the code after the yield
\* ends: the handler returned, it raised, or it was never called ("yielded":
\* the framework refused the request body and answered 422)
RunsFinally(outcome) == outcome \in {"yielded", "returned", "raised"}

\* a request that depends on get_db arrives
request_arrives ==
    /\ Len(reqs) < MaxRequests
    /\ reqs' = Append(reqs, Request("arrived", 0))
    /\ UNCHANGED sessions
    /\ UNCHANGED <<vars, uvars>>

\* line 27: db = SessionLocal()
get_db_open(n) ==
    /\ reqs[n].pc = "arrived"
    /\ LET k == SessionLocal(sessions)
       IN /\ sessions' = IF k \in DOMAIN sessions THEN sessions
                         ELSE Append(sessions, [state |-> "open", usedBy |-> {},
                                                usedClosed |-> FALSE])
          /\ reqs' = [reqs EXCEPT ![n] = Request("opened", k)]
    /\ UNCHANGED <<vars, uvars>>

\* line 29: yield db; get_user_repository builds UserRepository(db, map_user)
get_db_yield(n) ==
    /\ reqs[n].pc = "opened"
    /\ reqs' = [reqs EXCEPT ![n].pc = "yielded"]
    /\ UNCHANGED sessions
    /\ UNCHANGED <<vars, uvars>>

\* the request body is a UserRequest: the handler is called
handler_starts(n) ==
    /\ reqs[n].pc = "yielded"
    /\ reqs' = [reqs EXCEPT ![n].pc = "handling"]
    /\ UNCHANGED sessions
    /\ UNCHANGED <<vars, uvars>>

\* the handler of request n uses its session (add, commit, refresh)
handler_uses(n) ==
    /\ reqs[n].pc = "handling"
    /\ n \notin sessions[reqs[n].db].usedBy
    /\ sessions' = [sessions EXCEPT
                      ![reqs[n].db].usedBy = @ \cup {n},
                      ![reqs[n].db].usedClosed =
                          @ \/ sessions[reqs[n].db].state = "closed"]
    /\ UNCHANGED reqs
    /\ UNCHANGED <<vars, uvars>>

\* the handler returns its response
handler_returns(n) ==
    /\ reqs[n].pc = "handling"
    /\ reqs' = [reqs EXCEPT ![n].pc = "returned"]
    /\ UNCHANGED sessions
    /\ UNCHANGED <<vars, uvars>>

\* the handler raises
handler_raises(n) ==
    /\ reqs[n].pc = "handling"
    /\ reqs' = [reqs EXCEPT ![n].pc = "raised"]
    /\ UNCHANGED sessions
    /\ UNCHANGED <<vars, uvars>>

\* lines 32-33: the generator is resumed (or the exception thrown into it)
\* once the request is done with it, which is after the handler has finished
\* or, for a request body the framework refuses, without a call of the
\* handler: finally: db.close()
get_db_exit(n) ==
    /\ reqs[n].pc \in {"yielded", "returned", "raised"}
    /\ sessions' = IF RunsFinally(reqs[n].pc)
                   THEN [sessions EXCEPT ![reqs[n].db].state = "closed"]
                   ELSE sessions
    /\ reqs' = [reqs EXCEPT ![n].pc = "finished"]
    /\ UNCHANGED <<vars, uvars>>

\* the steps of request n once it has arrived
RequestStep(n) ==
    \/ get_db_open(n)
    \/ get_db_yield(n)
    \/ handler_starts(n)
    \/ handler_uses(n)
    \/ handler_returns(n)
    \/ handler_raises(n)
    \/ get_db_exit(n)

NextDb ==
    \/ request_arrives
    \/ \E n \in 1..Len(reqs) : get_db_open(n)
    \/ \E n \in 1..Len(reqs) : get_db_yield(n)
    \/ \E n \in 1..Len(reqs) : handler_starts(n)
    \/ \E n \in 1..Len(reqs) : handler_uses(n)
    \/ \E n \in 1..Len(reqs) : handler_returns(n)
    \/ \E n \in 1..Len(reqs) : handler_raises(n)
    \/ \E n \in 1..Len(reqs) : get_db_exit(n)

SpecDb == Init /\ [][NextDb]_allvars

\* the server runs every request it has accepted to its end
SpecDbFair ==
    SpecDb /\ \A n \in 1..MaxRequests : WF_allvars(n \in 1..Len(reqs) /\ RequestStep(n))

\* ------------------------------------------------------------ properties
\* the objects constructed for session id s
MadeFor(mf, s) == {r \in 1..Len(mf) : mf[r] = s}

\* the messages recorded under s, none when s is no key
Transcript(st, h, s) == IF s \in DOMAIN st THEN h[st[s]] ELSE <<>>

IsPrefix(a, b) == Len(a) <= Len(b) /\ SubSeq(b, 1, Len(a)) = a

\* C1: get_session_history(s) on a key of the store returns the transcript
\* stored under it and changes neither the store nor any transcript; on a
\* missing key it constructs a new empty transcript, inserts it under s,
\* leaving the other entries alone, and returns that same object; afterwards
\* s is a key of the store.
C1_GetOrCreate ==
    [][\A c \in Callers, s \in SessionIds :
         get_session_history(c, s) =>
           /\ s \in DOMAIN store'
           /\ ret'[c] = Returned(store'[s])
           /\ IF s \in DOMAIN store
              THEN /\ store' = store
                   /\ heap' = heap
                   /\ ret'[c].ref = store[s]
              ELSE /\ ret'[c].ref \notin Refs(heap)
                   /\ ret'[c].ref \in Refs(heap')
                   /\ heap'[ret'[c].ref] = <<>>
                   /\ DOMAIN store' = DOMAIN store \cup {s}
                   /\ \A x \in DOMAIN store : store'[x] = store[x]
                   /\ \A r \in Refs(heap) : heap'[r] = heap[r]]_vars

\* a hit and a miss have both happened: two callers were handed the same
\* object, and a second session has been created
C1_Witness ==
    /\ \E c, d \in Callers : c # d /\ ret[c].kind = "ok" /\ ret[d] = ret[c]
    /\ Cardinality(DOMAIN store) >= 2

\* C2: with calls that do not suspend, after any sequence of calls every
\* session id of the store maps to the one transcript ever constructed for
\* it; the call that creates it returns it empty and every later
\* get_session_history(s) returns that very object.
C2_CreatedOnce ==
    [][/\ \A s \in DOMAIN store' : MadeFor(madeFor', s) = {store'[s]}
       /\ \A c \in Callers, s \in SessionIds :
            get_session_history(c, s) =>
              /\ ret'[c].kind = "ok"
              /\ MadeFor(madeFor', s) = {ret'[c].ref}
              /\ s \notin DOMAIN store => heap'[ret'[c].ref] = <<>>
              /\ s \in DOMAIN store => ret'[c].ref = store[s]]_vars

\* the empty session id was created, written to, and fetched again
C2_Witness ==
    /\ "" \in DOMAIN store
    /\ Len(heap[store[""]]) >= 1
    /\ \E c \in Callers : ret[c] = Returned(store[""])

\* C3: when N callers access the same new session id concurrently, one
\* transcript is constructed for it and every caller is handed the stored one.
C3_OneInstance ==
    \A s \in SessionIds :
      /\ Cardinality(MadeFor(madeFor, s)) <= 1
      /\ \A c \in Callers :
           (ret[c].kind = "ok" /\ madeFor[ret[c].ref] = s)
             => (s \in DOMAIN store /\ store[s] = ret[c].ref)

\* C4: without synchronisation a caller can come to hold a transcript that
\* is not the one stored under its session id, and this happens only through
\* the race: the key is still in the store, and the held and the stored
\* object are two distinct transcripts, both constructed for that session id
\* by calls that saw the key missing.
C4_Race ==
    \A c \in Callers :
      ret[c].kind = "ok" =>
        LET s == madeFor[ret[c].ref]
        IN /\ s \in DOMAIN store
           /\ madeFor[store[s]] = s
           /\ store[s] # ret[c].ref =>
                /\ {store[s], ret[c].ref} \subseteq MadeFor(madeFor, s)
                /\ Cardinality(MadeFor(madeFor, s)) >= 2

\* a caller holds a transcript that is not the stored one
C4_Witness ==
    \E c \in Callers :
      /\ ret[c].kind = "ok"
      /\ madeFor[ret[c].ref] \in DOMAIN store
      /\ store[madeFor[ret[c].ref]] # ret[c].ref

\* C5: after append(s, m) a get_session_history(s) returns a transcript
\* whose last element is m and whose length is one more than the length
\* recorded under s before the append (0 when s was no key).
C5_AppendThenGet ==
    [][\A c \in Callers, s \in SessionIds, m \in Messages :
         append(c, s, m) =>
           LET got == Result(store', heap', s)
               after == HeapAfter(store', heap', s)
               before == Transcript(store, heap, s)
           IN /\ got.kind = "ok"
              /\ got.ref \in Refs(after)
              /\ Len(after[got.ref]) = Len(before) + 1
              /\ after[got.ref][Len(after[got.ref])] = m
              /\ (s \notin DOMAIN store) => Len(after[got.ref]) = 1]_vars

\* a transcript holds two messages: the first was appended to an empty
\* transcript, the second to the transcript the first append left in the store
C5_Witness ==
    \E s \in DOMAIN store : Len(heap[store[s]]) = 2

\* C6: distinct session ids never share a transcript, and a call for s
\* leaves every other session's entry bound to the same object with the
\* same messages in the same order.
C6_Isolation ==
    [][/\ \A s, t \in DOMAIN store' : s # t => store'[s] # store'[t]
       /\ \A c \in Callers, s \in SessionIds :
            (get_session_history(c, s) \/ \E m \in Messages : append(c, s, m)) =>
              \A t \in DOMAIN store \ {s} :
                /\ t \in DOMAIN store'
                /\ store'[t] = store[t]
                /\ heap'[store[t]] = heap[store[t]]]_vars

\* two sessions exist, both with a message
C6_Witness ==
    \E s, t \in DOMAIN store :
      s # t /\ Len(heap[store[s]]) >= 1 /\ Len(heap[store[t]]) >= 1

\* C7: transcripts are append-only and ordered: over every step the
\* messages recorded under a session id, and the messages of every
\* transcript object, are a prefix of what they are afterwards, and a step
\* adds at most one message to a transcript, at its end.
C7_AppendOnly ==
    [][/\ \A s \in SessionIds :
            IsPrefix(Transcript(store, heap, s), Transcript(store', heap', s))
       /\ \A r \in Refs(heap) :
            /\ r \in Refs(heap')
            /\ IsPrefix(heap[r], heap'[r])
            /\ Len(heap'[r]) <= Len(heap[r]) + 1]_vars

\* a transcript holds two different messages, in the order of their appends
C7_Witness ==
    \E s \in DOMAIN store :
      /\ Len(heap[store[s]]) = 2
      /\ heap[store[s]][1] # heap[store[s]][2]

\* C8: no step removes a key from the store: a session id that is a key
\* stays a key.
C8_NeverDestroyed == [][DOMAIN store \subseteq DOMAIN store']_vars

\* all calls of the budget have run to their end, and both session ids are
\* still keys
C8_Witness ==
    /\ DOMAIN store = ThreadSessionIds
    /\ calls = MaxCalls
    /\ \A c \in Callers : pc[c] = "idle"

\* C9: get_session_history has no error outcome: for every session id, the
\* empty string included, and in every state, the call can be made and
\* returns a transcript of the heap.
C9_AlwaysSucceeds ==
    /\ [](\A c \in Callers, s \in SessionIds : ENABLED get_session_history(c, s))
    /\ [](\A c \in Callers : ret[c].kind # "raise")
    /\ [][\A c \in Callers, s \in SessionIds :
            get_session_history(c, s) =>
              (ret'[c].kind = "ok" /\ ret'[c].ref \in Refs(heap'))]_vars

\* the empty session id was passed and a transcript came back
C9_Witness ==
    /\ "" \in DOMAIN store
    /\ \E c \in Callers : ret[c] = Returned(store[""])

\* C10: the store has one entry per distinct session id ever passed to a
\* call, however many there are: nothing is refused, nothing is evicted.
C10_OneEntryPerSession ==
    /\ DOMAIN store = asked
    /\ Cardinality(DOMAIN store) = Cardinality(asked)

\* every session id of the input set has its entry
C10_Witness == DOMAIN store = SessionIds /\ asked = SessionIds

\* C11: no recorded message is lost: when lookup, insert and add are separate
\* steps of concurrent appends, every message whose append has completed (it
\* is in a transcript constructed for its session id) is contained in the
\* transcript stored under that session id.
C11_NoMessageLost ==
    \A s \in DOMAIN store :
      \A r \in MadeFor(madeFor, s) :
        \A i \in 1..Len(heap[r]) :
          \E j \in 1..Len(heap[store[s]]) : heap[store[s]][j] = heap[r][i]

\* C12: validate_user_request decides in this order: a null model gives a
\* fresh model with IsInvalid and 'Invalid user model'; a null request gives
\* IsInvalid and 'Invalid user request' on the model and on a newly attached
\* request; a request with UserId <= 0 gives IsInvalid and 'Invalid user Id'
\* and leaves model.item as it was; otherwise model.item is a new item with
\* the request's Id, UserId and Name, and IsInvalid is false.
C12_ValidateRequest ==
    ucall.op = "validate_user_request" =>
      LET m == ucall.arg
          r == ucall.out
      IN IF m = None
         THEN /\ r.cls = "UserModel"
              /\ r.IsInvalid
              /\ r.Message = Str("Invalid user model")
              /\ r.item = None /\ r.request = None /\ r.response = None
         ELSE IF m.request = None
         THEN /\ r.IsInvalid
              /\ r.Message = Str("Invalid user request")
              /\ r.request # None
              /\ r.request.cls = "UserRequest"
              /\ r.request.IsInvalid
              /\ r.request.Message = Str("Invalid user request")
              /\ r.item = m.item
         ELSE IF m.request.UserId <= 0
         THEN /\ r.IsInvalid
              /\ r.Message = Str("Invalid user Id")
              /\ r.item = m.item
              /\ r.request = m.request
         ELSE /\ ~r.IsInvalid
              /\ r.item # None
              /\ r.item.cls = "UserItem"
              /\ r.item.Id = m.request.Id
              /\ r.item.UserId = m.request.UserId
              /\ r.item.Name = m.request.Name
              /\ r.request = m.request

\* the default UserId 0 was refused and the model kept the item it carried
C12_Witness ==
    /\ ucall.op = "validate_user_request"
    /\ ucall.arg # None
    /\ ucall.arg.request # None
    /\ ucall.arg.request.UserId = 0
    /\ ucall.arg.item = OldItem
    /\ ucall.out.IsInvalid

\* the calls a trace records
Called(tr) == {tr[i] : i \in 1..Len(tr)}

\* C15: UserRepository.create_user reports its outcome faithfully: a model
\* returned with IsInvalid = true means the call committed no entity; a model
\* returned with IsInvalid = false means it committed exactly one entity,
\* with the model's UserId and Name; whichever of add, commit, refresh raises.
C15_FaithfulOutcome ==
    (ucall.op = "repository.create_user" /\ ucall.raised = None) =>
      IF ucall.out.IsInvalid
      THEN rows = ucall.before
      ELSE /\ Len(rows) = Len(ucall.before) + 1
           /\ SubSeq(rows, 1, Len(ucall.before)) = ucall.before
           /\ rows[Len(rows)].UserId = ucall.out.item.UserId
           /\ rows[Len(rows)].Name = Str(ucall.out.item.Name)

\* C16: UserRepository.create_user never raises. Without a session it
\* returns the model with IsInvalid and 'Database session is None' and calls
\* neither add nor commit; when add, commit, refresh or the mapping raises it
\* returns the model with IsInvalid and the exception's text; otherwise it
\* calls add, commit, refresh in this order and model.item becomes the item
\* mapped from the refreshed entity.
C16_RepositoryNeverRaises ==
    ucall.op = "repository.create_user" =>
      /\ ucall.raised = None
      /\ IF ucall.db = "none"
         THEN /\ ucall.out = [ucall.arg EXCEPT
                                !.IsInvalid = TRUE,
                                !.Message = Str("Database session is None")]
              /\ Called(ucall.trace) \cap {"add", "commit"} = {}
         ELSE IF ucall.db \in {"add", "commit", "refresh", "mapping"}
         THEN /\ ucall.out = [ucall.arg EXCEPT
                                !.IsInvalid = TRUE,
                                !.Message = Str(ExcText(ucall.db))]
              /\ ucall.trace # <<>>
              /\ ucall.trace[Len(ucall.trace)] =
                   (IF ucall.db = "mapping" THEN "UserEntityToItem" ELSE ucall.db)
              /\ ucall.trace =
                   SubSeq(<<"add", "commit", "refresh", "UserEntityToItem">>,
                          1, Len(ucall.trace))
         ELSE /\ Len(ucall.trace) >= 3
              /\ SubSeq(ucall.trace, 1, 3) = <<"add", "commit", "refresh">>
              /\ ~ucall.out.IsInvalid
              /\ Len(rows) >= 1
              /\ ucall.out.item =
                   UserItem(rows[Len(rows)].Id, rows[Len(rows)].UserId,
                            rows[Len(rows)].Name.v)
              /\ ucall.out = [ucall.arg EXCEPT !.item = ucall.out.item]

\* C18: UserService.create_user calls the repository only when the model is
\* not flagged invalid after validate_user_model: a null model, a model with
\* a null item and a model that already has IsInvalid = true are answered
\* with a response that has IsInvalid = true and the model's Message, and the
\* repository is not called.
C18_ServiceGuardsRepository ==
    ucall.op = "service.create_user" =>
      /\ "repository.create_user" \in Called(ucall.trace) =>
           /\ ucall.arg # None
           /\ ucall.arg.item # None
           /\ ~ucall.arg.IsInvalid
      /\ (ucall.arg = None \/ ucall.arg.item = None \/ ucall.arg.IsInvalid) =>
           /\ ucall.trace = <<"validate_user_model">>
           /\ rows = ucall.before
           /\ ucall.out.IsInvalid
           /\ ucall.out.Message =
                IF ucall.arg = None THEN Str("Invalid user model")
                ELSE IF ucall.arg.item = None THEN Str("Invalid user item")
                ELSE ucall.arg.Message
           /\ ucall.out.response # None
           /\ ucall.out.response.IsInvalid
           /\ ucall.out.response.Message = ucall.out.Message

\* a model without an item, not flagged, was answered without the repository
C18_Witness ==
    /\ ucall.op = "service.create_user"
    /\ ucall.arg # None
    /\ ucall.arg.item = None
    /\ ~ucall.arg.IsInvalid
    /\ ucall.db = "ok"
    /\ ucall.trace = <<"validate_user_model">>
    /\ ucall.out.response.IsInvalid

\* C19: UserService.create_user always returns a model whose response is
\* set, response.IsInvalid is true exactly when model.IsInvalid is true, and
\* the Message 'User created successfully' appears only on responses with
\* IsInvalid = false: a failure of the repository is never reported as a
\* successful creation.
C19_ResponseAlwaysSet ==
    ucall.op = "service.create_user" =>
      /\ ucall.raised = None
      /\ ucall.out.response # None
      /\ ucall.out.response.IsInvalid = ucall.out.IsInvalid
      /\ ucall.out.response.Message = Str("User created successfully") =>
           ~ucall.out.response.IsInvalid
      /\ ("repository.create_user" \in Called(ucall.trace) /\ ucall.db # "ok") =>
           /\ ucall.out.response.IsInvalid
           /\ ucall.out.response.Message # Str("User created successfully")

\* the repository was called, its commit raised, and the response says so
C19_Witness ==
    /\ ucall.op = "service.create_user"
    /\ ucall.db = "commit"
    /\ "repository.create_user" \in Called(ucall.trace)
    /\ ucall.out.response # None
    /\ ucall.out.response.IsInvalid
    /\ ucall.out.response.Message = Str("commit failed")

\* call a is made before call b in the trace
Before(tr, a, b) == \E i \in 1..Len(tr), j \in 1..Len(tr) : i < j /\ tr[i] = a /\ tr[j] = b

\* the model the handler builds from a request, validated
Validated(request) == validate_user_request([UserModel EXCEPT !.request = request])

\* C13: in POST /create/user validation precedes persistence: the service,
\* the repository and the database are reached only after
\* validate_user_request returned a model with IsInvalid = false; when
\* validation fails the service is not called and the response carries
\* IsInvalid = true and the validator's Message.
C13_ValidationPrecedesPersistence ==
    ucall.op = "POST /create/user" =>
      /\ "service.create_user" \in Called(ucall.trace) =>
           /\ Before(ucall.trace, "validate_user_request", "service.create_user")
           /\ ~Validated(ucall.request).IsInvalid
      /\ (Called(ucall.trace) \cap {"repository.create_user", "add", "commit", "refresh"} # {}
            \/ rows # ucall.before) =>
           "service.create_user" \in Called(ucall.trace)
      /\ ("validate_user_request" \in Called(ucall.trace)
            /\ Validated(ucall.request).IsInvalid) =>
           /\ "service.create_user" \notin Called(ucall.trace)
           /\ rows = ucall.before
           /\ ucall.raised = None
           /\ ucall.response.IsInvalid
           /\ ucall.response.Message = Validated(ucall.request).Message

\* a request with UserId 0 was refused by the validation, on a working session
C13_Witness ==
    /\ ucall.op = "POST /create/user"
    /\ ucall.request.UserId = 0
    /\ ucall.db = "ok"
    /\ ucall.trace = <<"get_user_validation_utility", "validate_user_request">>
    /\ ucall.response.Message = Str("Invalid user Id")

\* C14: every user entity committed to the database through
\* POST /create/user has UserId > 0.
C14_CommittedUserIdPositive == \A i \in 1..Len(rows) : rows[i].UserId > 0

\* entities were committed, and a request with UserId <= 0 then met a
\* working session and left the table as it was
C14_Witness ==
    /\ ucall.op = "POST /create/user"
    /\ ucall.request.UserId <= 0
    /\ ucall.db = "ok"
    /\ ucall.fault = "none"
    /\ Len(rows) >= 1
    /\ rows = ucall.before

\* C17: POST /create/user never propagates an exception: an exception raised
\* inside the try block is caught and the handler returns a UserResponse
\* with IsInvalid = true and a Message that carries the error.
C17_NeverPropagates ==
    ucall.op = "POST /create/user" =>
      /\ ucall.raised = None
      /\ ucall.response # None
      /\ "except" \in Called(ucall.trace) =>
           /\ ucall.response.IsInvalid
           /\ ucall.response.Message # None

\* C20: for a request with UserId > 0 and a working database,
\* POST /create/user returns a response with IsInvalid = false, Message
\* 'User created successfully' and the request's UserId and Name; the stored
\* entity has the request's UserId and Name and an Id assigned by the
\* database, not the request's Id.
C20_ValidRequestCreates ==
    (/\ ucall.op = "POST /create/user"
     /\ ucall.request.UserId > 0
     /\ ucall.db = "ok"
     /\ ucall.fault = "none") =>
      /\ ucall.raised = None
      /\ ~ucall.response.IsInvalid
      /\ ucall.response.Message = Str("User created successfully")
      /\ ucall.response.UserId = ucall.request.UserId
      /\ ucall.response.Name = ucall.request.Name
      /\ Len(rows) = Len(ucall.before) + 1
      /\ SubSeq(rows, 1, Len(ucall.before)) = ucall.before
      /\ rows[Len(rows)] = [Id |-> Len(ucall.before) + 1,
                            UserId |-> ucall.request.UserId,
                            Name |-> Str(ucall.request.Name)]

\* a request with Id 7 was stored as the second row, with Id 2
C20_Witness ==
    /\ ucall.op = "POST /create/user"
    /\ ucall.request.Id = 7
    /\ ucall.request.UserId = 2
    /\ ucall.db = "ok"
    /\ ucall.fault = "none"
    /\ Len(rows) = 2
    /\ rows[2].Id = 2
    /\ ~ucall.response.IsInvalid

\* C21: MapUser round-trips: for every item x,
\* UserEntityToItem(UserItemToEntity(x)) has the Id, UserId and Name of x; for
\* every entity e, UserItemToEntity(UserEntityToItem(e)) has the Id, UserId
\* and Name of e; neither mapping modifies its argument.
C21_RoundTrip ==
    /\ ucall.op \in {"item round trip", "entity round trip"} =>
         /\ ucall.raised = None
         /\ ucall.out # None
         /\ ucall.out.Id = ucall.arg.Id
         /\ ucall.out.UserId = ucall.arg.UserId
         /\ ucall.out.Name = ucall.arg.Name
    /\ ucall.op \in {"UserItemToEntity", "UserEntityToItem",
                     "item round trip", "entity round trip"} =>
         ucall.argAfter = ucall.arg

\* what holds of the sessions of get_db in every state: a session is open
\* while its request is before the end of its handler and closed once get_db
\* is left, it is used by no request but the one it was made for and never
\* after its close, and no two requests have the same session
SessionsInOrder ==
    /\ \A n \in 1..Len(reqs) :
         /\ reqs[n].pc \in {"opened", "yielded", "handling"} =>
              sessions[reqs[n].db].state = "open"
         /\ reqs[n].pc = "finished" => sessions[reqs[n].db].state = "closed"
         /\ reqs[n].pc # "arrived" => reqs[n].db \in DOMAIN sessions
         /\ \A m \in 1..Len(reqs) :
              (m # n /\ reqs[m].db # 0 /\ reqs[n].db # 0) => reqs[m].db # reqs[n].db
    /\ \A k \in DOMAIN sessions :
         /\ ~sessions[k].usedClosed
         /\ \A n \in sessions[k].usedBy : reqs[n].db = k

\* C22: every session opened by get_db for a request is eventually closed,
\* whether the handler returns or raises; it is not closed before the
\* handler that uses it has finished; each request gets its own newly made
\* session.
C22_SessionClosed ==
    /\ []SessionsInOrder
    /\ \A k \in 1..MaxRequests :
         (k \in DOMAIN sessions) ~> (k \in DOMAIN sessions /\ sessions[k].state = "closed")

\* one request has raised and its session is still open, used by it, while
\* the session of an earlier request, which has left get_db, is closed
C22_Witness ==
    /\ Len(reqs) >= 2
    /\ reqs[1].pc = "finished"
    /\ sessions[reqs[1].db].state = "closed"
    /\ reqs[2].pc = "raised"
    /\ sessions[reqs[2].db].state = "open"
    /\ sessions[reqs[2].db].usedBy = {2}
====
